---- MODULE Spec2Model ----
(***************************************************************************)
(* Model of the httpserver package of ssrf-sheriff: the lifecycle Handle   *)
(* (Start / Shutdown / Addr), the readiness prober waitUntilAvailable and  *)
(* the serve goroutine launched by Start, together with the parts of       *)
(* net/http.Server (Serve, Shutdown) and of the network that the Handle    *)
(* talks to.  The caller of the Handle is one thread (the Handle is not    *)
(* thread-safe); every Start launches one serve goroutine that runs        *)
(* concurrently with the caller.                                           *)
(***************************************************************************)
EXTENDS Naturals, Sequences, FiniteSets, TLC

\* Number of Start calls that may get as far as creating a listener.
MaxStarts == 2

\* Identities of listeners; listener i is served by goroutine i, which
\* reports on channel i; the probe of that Start uses connection i.
Ids == 1..MaxStarts

----------------------------------------------------------------------------
(* Errors.  k: the kind of value, to: whether the value is a net.Error     *)
(* whose Timeout() is true, text: its message.                             *)

Nil == [k |-> "nil", to |-> FALSE, text |-> ""]

\* http.ErrServerClosed
ErrServerClosed == [k |-> "sentinel", to |-> FALSE, text |-> "http: Server closed"]

\* context.DeadlineExceeded (its Timeout() is true)
DeadlineExceeded == [k |-> "ctx", to |-> TRUE, text |-> "context deadline exceeded"]

\* A *net.OpError caused by a socket or dial timeout.
NetTimeout == [k |-> "net", to |-> TRUE, text |-> "i/o timeout"]

\* A *net.OpError that is no timeout (connection refused, reset, ...).
NetFail == [k |-> "net", to |-> FALSE, text |-> "connection refused"]

\* What Accept returns once the listener has been closed under it.
ErrClosedListener == [k |-> "net", to |-> FALSE, text |-> "use of closed network connection"]

\* A non-temporary failure of Accept on an open listener.
ErrAccept == [k |-> "net", to |-> FALSE, text |-> "accept failed"]

\* The failure of the listener factory.
ErrListen == [k |-> "net", to |-> FALSE, text |-> "address already in use"]

\* The failure of conn.SetDeadline.
ErrSetDeadline == [k |-> "net", to |-> FALSE, text |-> "set deadline failed"]

\* A failure of http.Server.Shutdown that is not the context's error.
ErrShutdown == [k |-> "net", to |-> FALSE, text |-> "close failed"]

\* errors.New / fmt.Errorf values
Errorf(msg, err) == [k |-> "fmt", to |-> FALSE, text |-> msg \o ": " \o err.text]

ErrAlreadyRunning == [k |-> "fmt", to |-> FALSE, text |-> "server is already running"]

\* The zero value of a channel's element type, received from a closed and
\* empty channel; NoVal marks an empty buffer slot.
NoVal == [k |-> "none", to |-> FALSE, text |-> ""]

\* A wrapNetErr that does not single out timeouts.
wrapNetErrPlain(err, msg) ==
    IF err = Nil THEN Nil ELSE Errorf(msg, err)

wrapNetErr(err, msg) ==
    IF err = Nil THEN Nil
    ELSE IF err.to THEN DeadlineExceeded
    ELSE Errorf(msg, err)

----------------------------------------------------------------------------
VARIABLES
    h_ln,        \* Handle.ln: 0 (nil) or the listener recorded by Start
    h_errCh,     \* Handle.errCh: 0 (nil channel) or the channel recorded by Start
    nextId,      \* identity of the next listener the listener factory makes
    lnOpen,      \* lnOpen[i]: listener i exists and has not been closed
    chBuf,       \* chBuf[i]: the one buffer slot of channel i (NoVal if empty)
    chClosed,    \* chClosed[i]: close(errCh) has run on channel i
    chTaken,     \* chTaken[i]: a value has been received from channel i
    task,        \* task[i]: position of the serve goroutine of listener i
    taskErr,     \* taskErr[i]: what Serve returned in goroutine i
    inShutdown,  \* http.Server.inShutdown
    tracked,     \* http.Server.listeners: listeners registered by Serve
    conn,        \* conn[i]: the probe connection dialed to listener i
    pc,          \* position of the caller inside Start or Shutdown
    cur,         \* ln/errCh locals of the Start in progress (or of the last one)
    ctxDl,       \* whether the context of the call in progress has a deadline
    probeErr,    \* what waitUntilAvailable returned to Start
    ret,         \* the last call that returned, and what it returned
    accepting,   \* accepting[i]: Serve of goroutine i got into its accept loop
    probe,       \* how waitUntilAvailable returned: the step that ended it, the
                 \* error that step got, and where the serve goroutine was then
    sdRecv       \* the value the Shutdown in progress (or the last one) received

vars == <<h_ln, h_errCh, nextId, lnOpen, chBuf, chClosed, chTaken, task, taskErr,
          inShutdown, tracked, conn, pc, cur, ctxDl, probeErr, ret,
          accepting, probe, sdRecv>>

handleVars == <<h_ln, h_errCh>>
netVars    == <<nextId, lnOpen, conn>>
chanVars   == <<chBuf, chClosed, chTaken>>
taskVars   == <<task, taskErr, accepting>>
srvVars    == <<inShutdown, tracked>>
startVars  == <<cur, probeErr, probe>>

NoProbe == [step |-> "none", raw |-> Nil, task |-> "none"]

NoConn == [st |-> "none", req |-> FALSE, resp |-> FALSE, closed |-> FALSE]

\* A connection after conn.Close(): nothing more is written to or read from it.
ClosedConn == [st |-> "closed", req |-> FALSE, resp |-> FALSE, closed |-> TRUE]

\* ln.Addr(): listener i is bound to address i; 0 is the nil net.Addr.
AddrOf(l) == l

Returned(op, err, addr) == [op |-> op, err |-> err, addr |-> addr]

\* NewHandle: no listener, nil errCh; nothing has been started.
Init ==
    /\ h_ln = 0
    /\ h_errCh = 0
    /\ nextId = 1
    /\ lnOpen = [i \in Ids |-> FALSE]
    /\ chBuf = [i \in Ids |-> NoVal]
    /\ chClosed = [i \in Ids |-> FALSE]
    /\ chTaken = [i \in Ids |-> FALSE]
    /\ task = [i \in Ids |-> "none"]
    /\ taskErr = [i \in Ids |-> Nil]
    /\ inShutdown = FALSE
    /\ tracked = {}
    /\ conn = [i \in Ids |-> NoConn]
    /\ pc = "idle"
    /\ cur = 0
    /\ ctxDl = FALSE
    /\ probeErr = Nil
    /\ ret = Returned("none", Nil, 0)
    /\ accepting = [i \in Ids |-> FALSE]
    /\ probe = NoProbe
    /\ sdRecv = NoVal

----------------------------------------------------------------------------
(* Channels of capacity one.                                               *)

\* A receive that goes through on an open, empty channel.
ChanNeverBlocks(c) == c # 0

\* A receive does not block: a value is buffered or the channel is closed.
ChanReady(c) == c # 0 /\ (chBuf[c] # NoVal \/ chClosed[c])

\* The value a receive yields: the buffered one, else the zero value (nil).
ChanRecv(c) == IF chBuf[c] # NoVal THEN chBuf[c] ELSE Nil

----------------------------------------------------------------------------
(* Handle.Start                                                            *)

\* The locals of the call that returned before this one are gone.
LocalsGone ==
    /\ cur' = 0
    /\ ctxDl' = FALSE
    /\ probeErr' = Nil
    /\ probe' = NoProbe
    /\ sdRecv' = NoVal

\* A Start that never notices the listener already set.
AlreadyRunningIgnored == FALSE

\* The precondition test of Start: h.ln != nil.
AlreadyRunning == h_ln # 0

\* Start on a handle whose listener is set: the error, and nothing else.
StartRejected ==
    /\ pc = "idle"
    /\ AlreadyRunning
    /\ ret' = Returned("Start", ErrAlreadyRunning, 0)
    /\ LocalsGone
    /\ UNCHANGED <<handleVars, netVars, chanVars, taskVars, srvVars, pc>>

\* A Start that launches the serve goroutine before it looks at the
\* listener factory's error.
StartListenFailsLaunched ==
    /\ pc = "idle"
    /\ ~AlreadyRunning
    /\ nextId <= MaxStarts
    /\ ret' = Returned("Start",
                       Errorf("error starting HTTP server on addr", ErrListen), 0)
    /\ task' = [task EXCEPT ![nextId] = "serve"]
    /\ nextId' = nextId + 1
    /\ LocalsGone
    /\ UNCHANGED <<handleVars, lnOpen, conn, chanVars, taskErr, accepting,
                   srvVars, pc>>

\* h.listenFunc fails: Start returns its error before anything is launched.
StartListenFails ==
    /\ pc = "idle"
    /\ ~AlreadyRunning
    /\ nextId <= MaxStarts
    /\ ret' = Returned("Start",
                       Errorf("error starting HTTP server on addr", ErrListen), 0)
    /\ LocalsGone
    /\ UNCHANGED <<handleVars, netVars, chanVars, taskVars, srvVars, pc>>

\* h.listenFunc succeeds: a fresh errCh is made, the serve goroutine is
\* launched on the new listener, the dialer is built, and Start enters
\* waitUntilAvailable.
StartListens ==
    /\ pc = "idle"
    /\ ~AlreadyRunning
    /\ nextId <= MaxStarts
    /\ \E dl \in BOOLEAN : ctxDl' = dl
    /\ cur' = nextId
    /\ nextId' = nextId + 1
    /\ lnOpen' = [lnOpen EXCEPT ![nextId] = TRUE]
    /\ task' = [task EXCEPT ![nextId] = "serve"]
    /\ probeErr' = Nil
    /\ probe' = NoProbe
    /\ sdRecv' = NoVal
    /\ pc' = "dial"
    /\ UNCHANGED <<handleVars, conn, chanVars, taskErr, accepting, srvVars, ret>>

\* Serve of goroutine i has returned (the goroutine is at or past its send).
ServeReturned(i) == task[i] \in {"send", "close", "done"}

\* A waitUntilAvailable without the deferred conn.Close().
ProbeReturnsLeak(step, raw, err) ==
    /\ probeErr' = err
    /\ probe' = [step |-> step, raw |-> raw, task |-> task[cur]]
    /\ pc' = "select"
    /\ UNCHANGED <<handleVars, netVars, chanVars, taskVars, srvVars,
                   cur, ctxDl, ret, sdRecv>>

\* waitUntilAvailable returns err: the deferred conn.Close() runs if a
\* connection was dialed, and Start goes on to look at the result.
ProbeReturns(step, raw, err) ==
    /\ probeErr' = err
    /\ conn' = IF step # "dial" THEN [conn EXCEPT ![cur] = ClosedConn] ELSE conn
    /\ probe' = [step |-> step, raw |-> raw, task |-> task[cur]]
    /\ pc' = "select"
    /\ UNCHANGED <<handleVars, nextId, lnOpen, chanVars, taskVars, srvVars,
                   cur, ctxDl, ret, sdRecv>>

\* What DialContext can fail with: a timeout only under a deadline.
DialErrors == {NetFail} \cup (IF ctxDl THEN {NetTimeout} ELSE {})

\* What Write and Read can fail with: a timeout only if SetDeadline ran.
ConnErrors == {NetFail} \cup (IF ctxDl THEN {NetTimeout} ELSE {})

\* d.DialContext: the connection is queued at the listener if it is open;
\* the dial can fail, and can time out if the context has a deadline.
ProbeDial ==
    /\ pc = "dial"
    /\ \/ /\ lnOpen[cur]
          /\ conn' = [conn EXCEPT ![cur].st = "backlog"]
          /\ pc' = "setdl"
          /\ UNCHANGED <<handleVars, nextId, lnOpen, chanVars, taskVars,
                         srvVars, startVars, ctxDl, ret, sdRecv>>
       \/ \E e \in DialErrors :
             ProbeReturns("dial", e, wrapNetErr(e, "failed to dial to addr"))

\* conn.SetDeadline, called only if the context has a deadline.
ProbeSetDeadline ==
    /\ pc = "setdl"
    /\ \/ /\ pc' = "write"
          /\ UNCHANGED <<handleVars, netVars, chanVars, taskVars, srvVars,
                         startVars, ctxDl, ret, sdRecv>>
       \/ /\ ctxDl
          /\ ProbeReturns("setdl", ErrSetDeadline,
                          Errorf("failed to set connection deadline", ErrSetDeadline))

\* conn.Write of the invalid request line.
ProbeWrite ==
    /\ pc = "write"
    /\ \/ /\ conn' = [conn EXCEPT ![cur].req = TRUE]
          /\ pc' = "read"
          /\ UNCHANGED <<handleVars, nextId, lnOpen, chanVars, taskVars,
                         srvVars, startVars, ctxDl, ret, sdRecv>>
       \/ \E e \in ConnErrors :
             ProbeReturns("write", e,
                          wrapNetErr(e, "failed to write request to server"))

\* A probe that takes the written request for proof of readiness.
ReadReadyUnanswered(c) == c.req

\* conn.Read returns a byte: the server has written one on this connection.
ReadReady(c) == c.resp

\* conn.Read of one byte.
ProbeRead ==
    /\ pc = "read"
    /\ \/ /\ ReadReady(conn[cur])
          /\ ProbeReturns("read", Nil, Nil)
       \/ \E e \in ConnErrors :
             ProbeReturns("read", e,
                          wrapNetErr(e, "failed to read response from server"))

\* A select that never looks at errCh.
ServeErrNeverAvailable(c) == FALSE

\* The case "err := <-errCh" of Start's select can be taken.
ServeErrAvailable(c) == ChanReady(c)

\* Start after waitUntilAvailable: on success the handle records the
\* channel and the listener; on failure the select either receives the
\* serve goroutine's error or falls to its default case.
StartSelect ==
    /\ pc = "select"
    /\ \/ /\ probeErr = Nil
          /\ h_errCh' = cur
          /\ h_ln' = cur
          /\ ret' = Returned("Start", Nil, 0)
          /\ pc' = "idle"
          /\ UNCHANGED chanVars
       \/ /\ probeErr # Nil
          /\ ServeErrAvailable(cur)
          /\ chBuf' = [chBuf EXCEPT ![cur] = NoVal]
          /\ chTaken' = [chTaken EXCEPT ![cur] = TRUE]
          /\ ret' = Returned("Start",
                             Errorf("error starting HTTP server", ChanRecv(cur)), 0)
          /\ pc' = "idle"
          /\ UNCHANGED <<handleVars, chClosed>>
       \/ /\ probeErr # Nil
          /\ ~ServeErrAvailable(cur)
          /\ pc' = "closeln"
          /\ UNCHANGED <<handleVars, chanVars, ret>>
    /\ ctxDl' = IF pc' = "idle" THEN FALSE ELSE ctxDl
    /\ UNCHANGED <<netVars, taskVars, srvVars, startVars, sdRecv>>

\* A default case that forgets ln.Close().
NotClosedByStart(l) == lnOpen

\* The listeners open after ln.Close() in the default case of the select.
ClosedByStart(l) == [lnOpen EXCEPT ![l] = FALSE]

\* The default case of the select: close the listener, return the
\* probe's error.
StartCloseListener ==
    /\ pc = "closeln"
    /\ lnOpen' = ClosedByStart(cur)
    /\ ret' = Returned("Start",
                       wrapNetErr(probeErr, "error waiting for server to start up"), 0)
    /\ pc' = "idle"
    /\ ctxDl' = FALSE
    /\ UNCHANGED <<handleVars, nextId, conn, chanVars, taskVars, srvVars,
                   startVars, sdRecv>>

----------------------------------------------------------------------------
(* The serve goroutine of Start, and http.Server.Serve inside it.          *)

\* Serve returns err in goroutine i: its deferred calls close the listener
\* and unregister it, and the goroutine goes on to report err.
ServeReturns(i, err) ==
    /\ taskErr' = [taskErr EXCEPT ![i] = err]
    /\ lnOpen' = [lnOpen EXCEPT ![i] = FALSE]
    /\ tracked' = tracked \ {i}
    /\ task' = [task EXCEPT ![i] = "send"]

\* Serve registers its listener, unless the server has been shut down.
ServeTrack(i) ==
    /\ task[i] = "serve"
    /\ \/ /\ inShutdown
          /\ ServeReturns(i, ErrServerClosed)
          /\ UNCHANGED accepting
       \/ /\ ~inShutdown
          /\ tracked' = tracked \cup {i}
          /\ task' = [task EXCEPT ![i] = "accept"]
          /\ accepting' = [accepting EXCEPT ![i] = TRUE]
          /\ UNCHANGED <<taskErr, lnOpen>>
    /\ UNCHANGED <<handleVars, nextId, conn, chanVars, inShutdown, pc,
                   startVars, ctxDl, ret, sdRecv>>

\* One turn of Serve's accept loop: a queued connection is accepted and
\* handed to its own goroutine, or Accept fails and Serve returns.
ServeAccept(i) ==
    /\ task[i] = "accept"
    /\ \/ /\ lnOpen[i]
          /\ conn[i].st = "backlog"
          /\ conn' = [conn EXCEPT ![i].st = "accepted"]
          /\ UNCHANGED <<lnOpen, tracked, task, taskErr>>
       \/ /\ ~lnOpen[i]
          /\ ServeReturns(i, IF inShutdown THEN ErrServerClosed
                                           ELSE ErrClosedListener)
          /\ UNCHANGED conn
       \/ /\ lnOpen[i]
          /\ ServeReturns(i, IF inShutdown THEN ErrServerClosed ELSE ErrAccept)
          /\ UNCHANGED conn
    /\ UNCHANGED <<handleVars, nextId, chanVars, accepting, inShutdown, pc,
                   startVars, ctxDl, ret, sdRecv>>

\* The server's goroutine of an accepted connection: it reads the invalid
\* request line and answers it.
ConnServe(i) ==
    /\ conn[i].st = "accepted"
    /\ conn[i].req
    /\ ~conn[i].resp
    /\ ~conn[i].closed
    /\ conn' = [conn EXCEPT ![i].resp = TRUE]
    /\ UNCHANGED <<handleVars, nextId, lnOpen, chanVars, taskVars, srvVars,
                   pc, startVars, ctxDl, ret, sdRecv>>

\* A goroutine that closes errCh without sending Serve's error.
ServeSendDropped(i) ==
    /\ task[i] = "send"
    /\ task' = [task EXCEPT ![i] = "close"]
    /\ UNCHANGED <<handleVars, netVars, chanVars, taskErr, accepting, srvVars,
                   pc, startVars, ctxDl, ret, sdRecv>>

\* A goroutine that sends Serve's error and comes back to send it again.
ServeSendTwice(i) ==
    /\ task[i] = "send"
    /\ chBuf[i] = NoVal
    /\ ~chClosed[i]
    /\ chBuf' = [chBuf EXCEPT ![i] = taskErr[i]]
    /\ task' = [task EXCEPT ![i] = IF chTaken[i] THEN "close" ELSE "send"]
    /\ UNCHANGED <<handleVars, netVars, chClosed, chTaken, taskErr, accepting,
                   srvVars, pc, startVars, ctxDl, ret, sdRecv>>

\* A send on an errCh made without a buffer: it goes through only while
\* the caller is receiving from that channel in Shutdown.
ServeSendUnbuffered(i) ==
    /\ task[i] = "send"
    /\ pc = "sd_wait"
    /\ h_errCh = i
    /\ chBuf[i] = NoVal
    /\ ~chClosed[i]
    /\ chBuf' = [chBuf EXCEPT ![i] = taskErr[i]]
    /\ task' = [task EXCEPT ![i] = "close"]
    /\ UNCHANGED <<handleVars, netVars, chClosed, chTaken, taskErr, accepting,
                   srvVars, pc, startVars, ctxDl, ret, sdRecv>>

\* errCh <- err
ServeSend(i) ==
    /\ task[i] = "send"
    /\ chBuf[i] = NoVal
    /\ ~chClosed[i]
    /\ chBuf' = [chBuf EXCEPT ![i] = taskErr[i]]
    /\ task' = [task EXCEPT ![i] = "close"]
    /\ UNCHANGED <<handleVars, netVars, chClosed, chTaken, taskErr, accepting,
                   srvVars, pc, startVars, ctxDl, ret, sdRecv>>

\* A goroutine that ends without close(errCh).
ServeCloseSkipped(i) ==
    /\ task[i] = "close"
    /\ task' = [task EXCEPT ![i] = "done"]
    /\ UNCHANGED <<handleVars, netVars, chanVars, taskErr, accepting, srvVars,
                   pc, startVars, ctxDl, ret, sdRecv>>

\* close(errCh)
ServeClose(i) ==
    /\ task[i] = "close"
    /\ chClosed' = [chClosed EXCEPT ![i] = TRUE]
    /\ task' = [task EXCEPT ![i] = "done"]
    /\ UNCHANGED <<handleVars, netVars, chBuf, chTaken, taskErr, accepting,
                   srvVars, pc, startVars, ctxDl, ret, sdRecv>>

----------------------------------------------------------------------------
(* Handle.Shutdown and Handle.Addr                                         *)

\* Shutdown calls h.srv.Shutdown, which marks the server as shutting down
\* and closes the registered listeners before it waits for connections.
Shutdown ==
    /\ pc = "idle"
    /\ \E dl \in BOOLEAN : ctxDl' = dl
    /\ inShutdown' = TRUE
    /\ lnOpen' = [i \in Ids |-> lnOpen[i] /\ i \notin tracked]
    /\ sdRecv' = NoVal
    /\ cur' = 0
    /\ probeErr' = Nil
    /\ probe' = NoProbe
    /\ pc' = "sd_srv"
    /\ UNCHANGED <<handleVars, nextId, conn, chanVars, taskVars, tracked, ret>>

\* h.srv.Shutdown returns nil: Shutdown goes on to wait on h.errCh.
SrvShutdownOk ==
    /\ pc = "sd_srv"
    /\ pc' = "sd_wait"
    /\ UNCHANGED <<handleVars, netVars, chanVars, taskVars, srvVars,
                   startVars, ctxDl, ret, sdRecv>>

\* A Shutdown that clears the listener before it looks at the error of
\* h.srv.Shutdown.
SrvShutdownFailsResets ==
    /\ pc = "sd_srv"
    /\ \E e \in {ErrShutdown} \cup (IF ctxDl THEN {DeadlineExceeded} ELSE {}) :
          ret' = Returned("Shutdown", e, 0)
    /\ h_ln' = 0
    /\ pc' = "idle"
    /\ ctxDl' = FALSE
    /\ UNCHANGED <<h_errCh, netVars, chanVars, taskVars, srvVars,
                   startVars, sdRecv>>

\* h.srv.Shutdown returns an error (the context's, or a close error):
\* Shutdown returns it at once.
SrvShutdownFails ==
    /\ pc = "sd_srv"
    /\ \E e \in {ErrShutdown} \cup (IF ctxDl THEN {DeadlineExceeded} ELSE {}) :
          ret' = Returned("Shutdown", e, 0)
    /\ pc' = "idle"
    /\ ctxDl' = FALSE
    /\ UNCHANGED <<handleVars, netVars, chanVars, taskVars, srvVars,
                   startVars, sdRecv>>

\* The value received from h.errCh counts as a clean stop.
CleanStop(err) == err = ErrServerClosed

\* A Shutdown that resets the handle without waiting on h.errCh.
ShutdownNoWait ==
    /\ pc = "sd_wait"
    /\ h_ln' = 0
    /\ ret' = Returned("Shutdown", Nil, 0)
    /\ pc' = "idle"
    /\ ctxDl' = FALSE
    /\ UNCHANGED <<h_errCh, netVars, chanVars, taskVars, srvVars, startVars,
                   sdRecv>>

\* err := <-h.errCh, and the rest of Shutdown.
ShutdownWait ==
    /\ pc = "sd_wait"
    /\ ChanReady(h_errCh)
    /\ sdRecv' = ChanRecv(h_errCh)
    /\ chBuf' = [chBuf EXCEPT ![h_errCh] = NoVal]
    /\ chTaken' = [chTaken EXCEPT ![h_errCh] = TRUE]
    /\ IF CleanStop(ChanRecv(h_errCh))
          THEN /\ h_ln' = 0
               /\ ret' = Returned("Shutdown", Nil, 0)
          ELSE /\ h_ln' = h_ln
               /\ ret' = Returned("Shutdown", ChanRecv(h_errCh), 0)
    /\ pc' = "idle"
    /\ ctxDl' = FALSE
    /\ UNCHANGED <<h_errCh, netVars, chClosed, taskVars, srvVars, startVars>>

\* Handle.Addr
Addr ==
    /\ pc = "idle"
    /\ ret' = Returned("Addr", Nil, IF h_ln = 0 THEN 0 ELSE AddrOf(h_ln))
    /\ LocalsGone
    /\ UNCHANGED <<handleVars, netVars, chanVars, taskVars, srvVars, pc>>

----------------------------------------------------------------------------
Next ==
    \/ StartRejected
    \/ StartListenFails
    \/ StartListens
    \/ ProbeDial
    \/ ProbeSetDeadline
    \/ ProbeWrite
    \/ ProbeRead
    \/ StartSelect
    \/ StartCloseListener
    \/ \E i \in Ids : ServeTrack(i)
    \/ \E i \in Ids : ServeAccept(i)
    \/ \E i \in Ids : ConnServe(i)
    \/ \E i \in Ids : ServeSend(i)
    \/ \E i \in Ids : ServeClose(i)
    \/ Shutdown
    \/ SrvShutdownOk
    \/ SrvShutdownFails
    \/ ShutdownWait
    \/ Addr

Spec == Init /\ [][Next]_vars

\* The scheduler runs every runnable goroutine: a serve goroutine whose
\* Serve has returned gets to send and to close, and a caller whose receive
\* from h.errCh can proceed does proceed.
FairSpec ==
    /\ Spec
    /\ WF_vars(ShutdownWait)
    /\ \A i \in Ids : WF_vars(ServeSend(i)) /\ WF_vars(ServeClose(i))

\* Accept on a closed listener returns its error.
AcceptOnClosed(i) == ~lnOpen[i] /\ ServeAccept(i)

\* Time passes and every runnable goroutine runs: under a context with a
\* deadline the probe's dial, write and read and h.srv.Shutdown return by
\* the deadline at the latest; the caller goes on whenever its next
\* statement can run; a serve goroutine registers its listener, learns of
\* its listener's closing, sends and closes.
LiveSpec ==
    /\ Spec
    /\ WF_vars(ctxDl /\ ProbeDial)
    /\ WF_vars(ctxDl /\ ProbeSetDeadline)
    /\ WF_vars(ctxDl /\ ProbeWrite)
    /\ WF_vars(ctxDl /\ ProbeRead)
    /\ WF_vars(StartSelect)
    /\ WF_vars(StartCloseListener)
    /\ WF_vars(ctxDl /\ (SrvShutdownOk \/ SrvShutdownFails))
    /\ WF_vars(ShutdownWait)
    /\ \A i \in Ids :
          /\ WF_vars(ServeTrack(i))
          /\ WF_vars(AcceptOnClosed(i))
          /\ WF_vars(ServeSend(i))
          /\ WF_vars(ServeClose(i))

----------------------------------------------------------------------------
(* Properties of Start.                                                    *)

\* The last call was a Start and it has returned err.
StartReturned(err) == pc = "idle" /\ ret.op = "Start" /\ ret.err = err

\* What Start returns when the listener factory fails.
ListenFailure == Errorf("error starting HTTP server on addr", ErrListen)

\* The last call was a Start that made a listener and then failed.
StartFailedAfterListen ==
    /\ pc = "idle"
    /\ ret.op = "Start"
    /\ ret.err \notin {Nil, ErrAlreadyRunning, ListenFailure}

\* C1: at the moment Start returns nil, the serve goroutine launched by
\* that Start has reached its accept loop on the new listener and the probe
\* has read a byte from it.
C1_StartOkOnlyWhenAccepting ==
    StartReturned(Nil) =>
        /\ accepting[cur]
        /\ probe.step = "read" /\ probe.raw = Nil
        /\ probe.task \in {"accept", "send", "close", "done"}

\* Start has returned nil while its serve goroutine sits in the accept loop.
C1_Witness ==
    /\ StartReturned(Nil)
    /\ task[cur] = "accept"
    /\ lnOpen[cur]
    /\ h_ln = cur

\* C2: whenever Start returns an error after the listener factory
\* succeeded, the listener made by that Start is closed.
C2_FailedStartClosesListener ==
    StartFailedAfterListen => ~lnOpen[cur]

\* Start failed through the default case of its select while the serve
\* goroutine was still inside Serve: the listener was closed by Start.
C2_Witness ==
    /\ StartFailedAfterListen
    /\ task[cur] = "accept"
    /\ ~lnOpen[cur]

\* A step in which a Start call is entered or returns at once.
StartStep == pc = "idle" /\ (pc' = "dial" \/ (ret' # ret /\ ret'.op = "Start"))

\* C3: a Start on a handle whose listener is set returns the "already
\* running" error and changes nothing: no listener, no goroutine, no
\* channel, and the handle's fields are as before.
C3_SecondStartRejected ==
    [][(StartStep /\ h_ln # 0) =>
          /\ ret'.err = ErrAlreadyRunning
          /\ pc' = "idle"
          /\ UNCHANGED <<handleVars, netVars, chanVars, taskVars, srvVars>>]_vars

\* A Start has been rejected on a handle whose listener is set.
C3_Witness ==
    /\ StartReturned(ErrAlreadyRunning)
    /\ h_ln # 0
    /\ nextId <= MaxStarts

----------------------------------------------------------------------------
(* Properties of the handle's state between calls.                         *)

\* The server started by the last successful Start is still inside Serve.
Serving == h_errCh # 0 /\ ~ServeReturned(h_errCh)

\* C4 as claimed: between calls, the listener field is set if and only if
\* a Start has succeeded and the server it started has not stopped since.
C4_ListenerIffServing ==
    pc = "idle" => (h_ln # 0 <=> Serving)

\* C4 as amended: between calls, while the server started by a successful
\* Start is still serving, the listener field is set.
C4_ServingImpliesListener ==
    pc = "idle" => (Serving => h_ln # 0)

\* A Shutdown has returned an error while the serve goroutine is still in
\* its accept loop; the listener field is still set.
C4_Witness ==
    /\ pc = "idle"
    /\ ret.op = "Shutdown"
    /\ ret.err # Nil
    /\ Serving
    /\ task[h_errCh] = "accept"
    /\ h_ln = h_errCh

\* C5: whenever Shutdown returns nil, the handle is Idle afterwards: its
\* listener field is nil, so Addr returns nil and Start is not rejected.
C5_ShutdownOkMeansIdle ==
    (pc = "idle" /\ ret.op = "Shutdown" /\ ret.err = Nil) => h_ln = 0

\* C6: a Shutdown on a handle that an earlier Shutdown has reset, once
\* h.srv.Shutdown has returned nil, gets past its wait on h.errCh.
C6_SecondShutdownReturns ==
    (pc = "sd_wait" /\ h_ln = 0 /\ h_errCh # 0) ~> (pc = "idle")

\* A second Shutdown on a reset handle has returned nil, having received
\* the zero value from the closed channel.
C6_Witness ==
    /\ pc = "idle"
    /\ ret.op = "Shutdown"
    /\ ret.err = Nil
    /\ sdRecv = Nil
    /\ h_ln = 0
    /\ chClosed[h_errCh]

----------------------------------------------------------------------------
(* Properties of Start's failure paths.                                    *)

\* What Start returns when it takes the serve goroutine's error.
ServeFailure(i) == Errorf("error starting HTTP server", taskErr[i])

\* C7 as claimed: if Serve had returned when waitUntilAvailable returned
\* its failure, Start returns the error derived from Serve's.
C7_ServeErrorWhenServeReturned ==
    (StartFailedAfterListen /\ probe.task \in {"send", "close", "done"})
        => ret.err = ServeFailure(cur)

\* C7 as amended: if the serve goroutine had sent Serve's error on errCh
\* when waitUntilAvailable returned its failure, Start returns the error
\* derived from Serve's.
C7_ServeErrorWhenReported ==
    (StartFailedAfterListen /\ probe.task \in {"close", "done"})
        => ret.err = ServeFailure(cur)

\* Start has returned the serve goroutine's error, taken from errCh before
\* the goroutine closed the channel.
C7_Witness ==
    /\ StartFailedAfterListen
    /\ probe.task = "close"
    /\ probe.raw # Nil
    /\ ret.err = ServeFailure(cur)

\* C8: when the listener factory fails, Start returns that failure at
\* once and the handle stays Idle: nothing is launched or made, and the
\* handle's fields stay as they were, the listener field nil.
C8_ListenFailureLeavesIdle ==
    [][(StartStep /\ ret' # ret /\ ret'.err = ListenFailure) =>
          /\ pc' = "idle"
          /\ h_ln' = 0
          /\ UNCHANGED <<handleVars, netVars, chanVars, taskVars, srvVars>>]_vars

\* Start has returned the listener factory's failure after an earlier
\* Start had made a listener and failed; the handle is Idle.
C8_Witness ==
    /\ StartReturned(ListenFailure)
    /\ h_ln = 0
    /\ nextId > 1

\* C9 as claimed: if the probe times out, Start returns deadline-exceeded
\* and the listener is closed.
C9_TimeoutAlwaysDeadlineExceeded ==
    (StartFailedAfterListen /\ probe.raw.to)
        => (ret.err = DeadlineExceeded /\ ~lnOpen[cur])

\* C9 as amended: if the probe times out in its dial, write or read,
\* waitUntilAvailable returns deadline-exceeded and the listener is closed
\* when Start returns; Start returns deadline-exceeded unless it takes the
\* serve goroutine's error from errCh.
C9_TimeoutNormalized ==
    (StartFailedAfterListen /\ probe.raw.to) =>
        /\ probeErr = DeadlineExceeded
        /\ ~lnOpen[cur]
        /\ \/ ret.err = DeadlineExceeded
           \/ ret.err = ServeFailure(cur) /\ chTaken[cur]

\* The probe timed out in its read while the serve goroutine was in its
\* accept loop, and Start returned deadline-exceeded.
C9_Witness ==
    /\ StartFailedAfterListen
    /\ probe.raw.to
    /\ probe.step = "read"
    /\ probe.task = "accept"
    /\ ret.err = DeadlineExceeded
    /\ ~lnOpen[cur]

----------------------------------------------------------------------------
(* Properties of Shutdown's use of the completion channel.                 *)

\* C10 as claimed: every Shutdown after a successful Start has received
\* Serve's error from that Start's channel when it returns.
C10_EveryShutdownDrains ==
    (pc = "idle" /\ ret.op = "Shutdown" /\ h_errCh # 0)
        => sdRecv = taskErr[h_errCh]

\* C10 as amended: a Shutdown whose h.srv.Shutdown returned nil receives
\* from the channel of the last successful Start before it returns:
\* Serve's error if no call has received it yet, the zero value otherwise;
\* a Shutdown whose h.srv.Shutdown fails returns without receiving.
C10_WaitingShutdownDrains ==
    [][/\ (pc = "sd_wait" /\ pc' = "idle") =>
             /\ ServeReturned(h_errCh)
             /\ sdRecv' = IF chTaken[h_errCh] THEN Nil ELSE taskErr[h_errCh]
             /\ chBuf'[h_errCh] = NoVal
             /\ chTaken'[h_errCh]
       /\ (pc = "sd_srv" /\ pc' = "idle") =>
             /\ sdRecv' = NoVal
             /\ UNCHANGED chanVars]_vars

\* The first Shutdown after a successful Start has returned nil, having
\* received http.ErrServerClosed from the channel.
C10_Witness ==
    /\ pc = "idle"
    /\ ret.op = "Shutdown"
    /\ ret.err = Nil
    /\ sdRecv = ErrServerClosed
    /\ h_errCh # 0
    /\ chTaken[h_errCh]

----------------------------------------------------------------------------
(* Termination of the calls.                                               *)

\* C11: a Start or Shutdown whose context has a deadline returns, wherever
\* it is blocked: in the probe's dial, write or read, in h.srv.Shutdown, or
\* in Shutdown's wait on h.errCh.
C11_DeadlineEndsCall ==
    (pc # "idle" /\ ctxDl) ~> (pc = "idle")

\* C18: a Shutdown on a handle on which no Start has succeeded returns
\* once h.srv.Shutdown has returned nil.
C18_ShutdownWithoutStartReturns ==
    (pc = "sd_wait" /\ h_errCh = 0) ~> (pc = "idle")

----------------------------------------------------------------------------
(* Addr, the completion channel, and Shutdown's result.                    *)

\* A step in which an Addr call returns.
AddrStep == pc = "idle" /\ ret' # ret /\ ret'.op = "Addr"

\* C12: Addr returns the address of the listener recorded by the last
\* successful Start if the listener field is set and nil otherwise; it
\* returns nil on a fresh handle, after a failed Start from Idle and after a
\* Shutdown that returned nil; it changes nothing of the handle.
C12_AddrReportsListener ==
    [][AddrStep =>
          /\ ret'.addr = IF h_ln # 0 THEN AddrOf(h_errCh) ELSE 0
          /\ ret.op = "none" => ret'.addr = 0
          /\ (ret.op = "Start" /\ ret.err \notin {Nil, ErrAlreadyRunning})
                => ret'.addr = 0
          /\ (ret.op = "Shutdown" /\ ret.err = Nil) => ret'.addr = 0
          /\ UNCHANGED <<handleVars, netVars, chanVars, taskVars, srvVars>>]_vars

\* The positions of a serve goroutine after its send.
AfterSend == {"close", "done"}

\* C13: a serve goroutine writes Serve's error to its channel once, after
\* Serve has returned and before any receive, and then closes the channel;
\* a closed channel stays closed and is not written; every Start that makes
\* a listener makes a channel that nothing has used.
C13_OneSendThenClose ==
    [][/\ \A i \in Ids :
             /\ (chBuf'[i] # chBuf[i] /\ chBuf'[i] # NoVal) =>
                   /\ task[i] = "send" /\ task'[i] = "close"
                   /\ chBuf[i] = NoVal /\ chBuf'[i] = taskErr[i]
                   /\ ~chTaken[i] /\ ~chClosed[i]
             /\ task[i] \in AfterSend => task'[i] \in AfterSend
             /\ chClosed[i] => chClosed'[i]
             /\ (chClosed'[i] /\ ~chClosed[i]) =>
                   (task[i] = "close" /\ task'[i] = "done")
       /\ (pc = "idle" /\ pc' = "dial") =>
             /\ cur' # h_errCh
             /\ task[cur'] = "none"
             /\ chBuf[cur'] = NoVal /\ ~chClosed[cur'] /\ ~chTaken[cur']]_vars

\* A serve goroutine has sent Serve's error and closed its channel, and the
\* value is still in the buffer.
C13_Witness ==
    \E i \in Ids :
        /\ task[i] = "done"
        /\ chClosed[i]
        /\ chBuf[i] = taskErr[i]
        /\ taskErr[i] # Nil

\* C14: when h.srv.Shutdown returned nil, Shutdown returns nil if and only
\* if the value it received from h.errCh is http.ErrServerClosed.
C14_SuccessIffSentinel ==
    (pc = "idle" /\ ret.op = "Shutdown" /\ sdRecv # NoVal)
        => (ret.err = Nil <=> sdRecv = ErrServerClosed)

\* C15: when h.srv.Shutdown returns an error, Shutdown returns an error
\* without receiving from h.errCh and leaves h.ln and h.errCh as they were;
\* Shutdown clears h.ln only in the step in which it returns nil.
C15_FailedShutdownKeepsHandle ==
    [][/\ (pc = "sd_srv" /\ pc' = "idle") =>
             /\ ret'.op = "Shutdown"
             /\ ret'.err \in {ErrShutdown, DeadlineExceeded}
             /\ sdRecv' = NoVal
             /\ UNCHANGED <<handleVars, chanVars>>
       /\ (h_ln # 0 /\ h_ln' = 0) =>
             /\ pc = "sd_wait"
             /\ ret' = Returned("Shutdown", Nil, 0)]_vars

\* A Shutdown has returned the error of h.srv.Shutdown; the listener field
\* is still set and Serve's error is still in the channel.
C15_Witness ==
    /\ pc = "idle"
    /\ ret.op = "Shutdown"
    /\ ret.err = DeadlineExceeded
    /\ sdRecv = NoVal
    /\ h_ln # 0
    /\ chBuf[h_errCh] = ErrServerClosed

\* C16: whenever a Shutdown after a successful Start returns nil, Serve
\* has returned in the goroutine of that Start and its error has been sent
\* on the channel.
C16_ShutdownOkAfterServeReturned ==
    (pc = "idle" /\ ret.op = "Shutdown" /\ ret.err = Nil /\ h_errCh # 0)
        => /\ task[h_errCh] \in AfterSend
           /\ taskErr[h_errCh] # Nil
           /\ chTaken[h_errCh]
           /\ ~lnOpen[h_errCh]

\* The first Shutdown has returned nil before the goroutine has closed the
\* channel.
C16_Witness ==
    /\ pc = "idle"
    /\ ret.op = "Shutdown"
    /\ ret.err = Nil
    /\ h_errCh # 0
    /\ task[h_errCh] = "close"
    /\ sdRecv = ErrServerClosed

\* C17: waitUntilAvailable returns nil only from its read, with a byte
\* of the server's answer on the connection; when it returns after a
\* successful dial the connection is closed; when the dial fails it returns
\* an error and there is no connection.
C17_ProbeClosesConn ==
    [][(pc # "select" /\ pc' = "select") =>
          /\ probeErr' = Nil =>
                (pc = "read" /\ conn[cur].resp /\ conn[cur].st = "accepted")
          /\ pc \in {"setdl", "write", "read"} =>
                (conn[cur].st # "none" /\ conn'[cur].closed)
          /\ pc = "dial" => (probeErr' # Nil /\ conn'[cur] = NoConn)]_vars

\* waitUntilAvailable has returned a write error; the connection it had
\* dialed is closed.
C17_Witness ==
    /\ pc = "select"
    /\ probe.step = "write"
    /\ probeErr # Nil
    /\ conn[cur].closed

----------------------------------------------------------------------------
(* The serve goroutines and the listeners over the handle's life.          *)

\* C19: once Serve has returned in a serve goroutine, the goroutine sends
\* on its channel, closes it and ends, whether or not anyone receives.
C19_ServeTaskEnds ==
    \A i \in Ids : ServeReturned(i) ~> (task[i] = "done")

\* Start failed through the default case of its select and dropped the
\* channel; the goroutine has ended, its error unread in the buffer.
C19_Witness ==
    /\ StartFailedAfterListen
    /\ ret.err # ServeFailure(cur)
    /\ h_errCh # cur
    /\ task[cur] = "done"
    /\ chBuf[cur] = taskErr[cur]
    /\ ~chTaken[cur]

\* The listeners made by the handle that are open.
OpenListeners == {i \in Ids : lnOpen[i]}

\* Goroutine i is inside Serve.
InServe(i) == task[i] \in {"serve", "accept"}

\* Every goroutine whose listener has been closed has left Serve.
CleanupDone == \A i \in Ids : InServe(i) => lnOpen[i]

\* C20: at most one listener made by the handle is open; between calls,
\* once the goroutines of closed listeners have left Serve, at most one
\* goroutine is inside Serve; a Start makes a listener only while the
\* listener field is nil; the listener of a failed Start is closed, and no
\* listener is open after a Shutdown that returned nil.
C20_OneListenerOneTask ==
    /\ Cardinality(OpenListeners) <= 1
    /\ (pc = "idle" /\ CleanupDone) => Cardinality({i \in Ids : InServe(i)}) <= 1
    /\ pc \in {"dial", "setdl", "write", "read", "select", "closeln"} => h_ln = 0
    /\ StartFailedAfterListen => ~lnOpen[cur]
    /\ (pc = "idle" /\ ret.op = "Shutdown" /\ ret.err = Nil) => OpenListeners = {}

\* A Start has succeeded after an earlier Start had failed: the earlier
\* listener is closed and its goroutine has ended, the new one is served.
C20_Witness ==
    \E i, j \in Ids :
        /\ i # j
        /\ pc = "idle"
        /\ ~lnOpen[i] /\ task[i] = "done"
        /\ h_ln = j /\ lnOpen[j] /\ task[j] = "accept"

====
